---- MODULE Spec2Model ----
(***************************************************************************)
(* ElizaFramework (src/src/index.ts): character registry, conversation     *)
(* identity map, room/participant manager and the message pipeline,        *)
(* modelled as a state machine.  The storage adapter, the agent runtime    *)
(* and the generative backend are outside the repository; they are         *)
(* modelled by the contracts of spec section 6.                            *)
(*                                                                         *)
(* Encoding of values:                                                     *)
(*   - undefined / absent is 0 (falsy, as in the source's `if (x)` tests); *)
(*   - persistence tokens are positive integers, room ids generated by the *)
(*     adapter are negative integers (never equal to a caller's token);    *)
(*   - runtimes are numbered in order of construction, 1, 2, ...;          *)
(*   - user ids are positive integers, the agent id of runtime r is -r;    *)
(*   - an optional result is a sequence of length 0 (absent) or 1.         *)
(***************************************************************************)
EXTENDS Integers, Sequences, FiniteSets, TLC

\* Most conversations one run creates.
MaxConv == 2

\* Most sendToConversation calls one run makes.
MaxSends == 1

\* Most loadCharacter calls that succeed in one run.
MaxLoads == 2

\* The calls that may be in flight at once.
Tasks == {"t1", "t2"}

\* ElizaFramework instances of the process (they share `initialized`).
Instances == {"f1", "f2"}

\* Character definitions (ElizaCharacterOptions).  functions is the list of
\* declared functions, each with its name and the names of its parameters in
\* declaration order; declared is FALSE when the options carry no functions
\* list at all (options.functions is undefined).
DefAva == [name |-> "Ava", declared |-> TRUE,
           functions |-> <<[name |-> "setMood", parameters |-> <<"mood">>]>>]

DefBob == [name |-> "Bob", declared |-> TRUE, functions |-> <<>>]

\* A definition without a functions list.
DefCat == [name |-> "Cat", declared |-> FALSE, functions |-> <<>>]

\* Definitions whose function has two parameters: with two names, with a
\* parameter whose name is the empty string, with the same name twice.
DefDan == [name |-> "Dan", declared |-> TRUE,
           functions |-> <<[name |-> "move", parameters |-> <<"x", "y">>]>>]

DefEli == [name |-> "Eli", declared |-> TRUE,
           functions |-> <<[name |-> "move", parameters |-> <<"x", "">>]>>]

DefFay == [name |-> "Fay", declared |-> TRUE,
           functions |-> <<[name |-> "move", parameters |-> <<"x", "x">>]>>]

DefSeq == <<DefAva, DefBob, DefCat, DefDan, DefEli, DefFay>>

\* The definitions that carry a functions list.
Defs == {DefAva, DefBob}

\* The definitions with at most one parameter, with and without a functions
\* list.
AllDefs == {DefAva, DefBob, DefCat}

\* The definitions with two parameters.
PairDefs == {DefDan, DefEli, DefFay}

\* sha256 over JSON.stringify(data): deterministic, and injective on the
\* definitions of the model (no collision among them).
generatePersonalityHash(data) == CHOOSE i \in 1..Len(DefSeq) : DefSeq[i] = data

\* Persistence tokens a caller may supply; 0 is "no token".
Tokens == {1}

TokenArgs == Tokens \cup {0}

User1 == [id |-> 1, name |-> "Bob"]

User2 == [id |-> 2, name |-> "Eve"]

\* A user whose display name is the empty string.
User3 == [id |-> 3, name |-> ""]

\* User lists a caller passes.
UserLists == {<<>>, <<User1>>, <<User2, User1>>, <<User1, User1>>, <<User3>>}

\* Context lists a caller passes to sendToConversation.
Contexts == {<<>>, <<[key |-> "k", value |-> "v"]>>}

VARIABLES
    initialized,          \* module-level flag, shared by every instance
    initCalls,            \* instance -> number of adapter.init() calls
    runtimeCharacterMaps, \* hash -> [runtime, character]
    runtimesConstructed,  \* number of AgentRuntime objects constructed
    stopped,              \* runtimes on which stop() has been called
    conversationCount,
    conversationIdMap,    \* id -> secret
    roomMaps,             \* secret -> [users, runtimeCharacterMap]
    dbRooms,              \* adapter: ids of the rooms that exist
    dbParticipants,       \* adapter: <<roomId, userId>> pairs
    uuidCount,            \* adapter: room ids generated so far
    memories,             \* runtime -> sequence of recorded memories
    providers,            \* runtime -> runtime.providers
    actions,              \* runtime -> runtime.actions
    genCalls,             \* invocations of the generative backend
    sends,                \* sendToConversation calls made
    convs,                \* conversations createConversation returned
    finished,             \* ids of the conversations passed to finishConversation
    characters,           \* this.characters: what loadCharacter pushed
    initializedRuntimes,  \* runtimes on which initialize() has been called
    tasks,                \* the calls in flight: task -> its local variables
    ret                   \* what the last call did and returned

vars == <<initialized, initCalls, runtimeCharacterMaps, runtimesConstructed,
          stopped, conversationCount, conversationIdMap, roomMaps, dbRooms,
          dbParticipants, uuidCount, memories, providers, actions, genCalls,
          sends, convs, finished, characters, initializedRuntimes, tasks,
          ret>>

registryVars == <<runtimeCharacterMaps, runtimesConstructed>>

identityVars == <<conversationCount, conversationIdMap, convs>>

adapterVars == <<dbRooms, dbParticipants, uuidCount>>

runtimeVars == <<memories, providers, actions, genCalls, sends>>

startVars == <<initialized, initCalls>>

loadVars == <<characters, initializedRuntimes>>

\* The record of a call: the operation, the secret it was about, its outcome,
\* the adapter/runtime calls it issued, the runtime it stopped (0: none) and
\* the conversation id it returned (0: none); then the arguments some
\* operations take (users, playerId, instance, the hash of the character)
\* and repeat: the call has the operation and the arguments of the call right
\* before it.  For sendToConversation: runtime is the runtime the call used,
\* response and object what the generative backend returned to it (absent
\* also when it was not asked), content and resultCalls the fields of the
\* value the call returned.
Result(op, secret, status, calls, stoppedRuntime, id) ==
    [op |-> op, secret |-> secret, status |-> status, calls |-> calls,
     stoppedRuntime |-> stoppedRuntime, id |-> id, users |-> <<>>,
     playerId |-> 0, instance |-> "", repeat |-> FALSE, character |-> 0,
     runtime |-> 0, response |-> <<>>, object |-> <<>>, content |-> "",
     resultCalls |-> <<>>]

\* A task that runs no call.  The local variables of a call in flight: pc is
\* the await the call is suspended at ("done": it has returned), overlapped
\* tells that a call of the same operation on the same conversation (for
\* sendToConversation: on the same runtime) was in flight together with it.
\* Of a sendToConversation call: rendered is the provider list the runtime
\* queried while composing its state, installed that it has assigned
\* runtime.actions, functions the functions it read for that,
\* stoppedAtInstall that its runtime was stopped by then, seen the calls
\* whose action lists it read from runtime.actions.  The others are named
\* after the locals of the method the task runs.
IdleTask ==
    [op |-> "idle", pc |-> "idle", secret |-> 0, id |-> 0, overlapped |-> FALSE,
     users |-> <<>>, participants |-> {}, removed |-> {}, i |-> 1,
     playerId |-> 0, runtime |-> 0, context |-> <<>>, rendered |-> <<>>,
     installed |-> FALSE, functions |-> <<>>, stoppedAtInstall |-> FALSE,
     response |-> <<>>, message |-> <<>>, seen |-> {}, character |-> 0,
     status |-> ""]

Init ==
    /\ initialized = FALSE
    /\ initCalls = [i \in Instances |-> 0]
    /\ runtimeCharacterMaps = <<>>
    /\ runtimesConstructed = 0
    /\ stopped = {}
    /\ conversationCount = 0
    /\ conversationIdMap = <<>>
    /\ roomMaps = <<>>
    /\ dbRooms = {}
    /\ dbParticipants = {}
    /\ uuidCount = 0
    /\ memories = <<>>
    /\ providers = <<>>
    /\ actions = <<>>
    /\ genCalls = 0
    /\ sends = 0
    /\ convs = <<>>
    /\ finished = {}
    /\ characters = <<>>
    /\ initializedRuntimes = {}
    /\ tasks = [t \in Tasks |-> IdleTask]
    /\ ret = Result("constructor", 0, "ok", {}, 0, 0)

----
\* Lifecycle and character registry.

\* start() that never sets the module-level flag.
StartWithoutFlag(i) ==
    IF initialized
    THEN /\ ret' = [Result("start", 0, "AlreadyInitialized", {}, 0, 0)
                        EXCEPT !.instance = i]
         /\ UNCHANGED <<startVars, loadVars, tasks, registryVars, stopped,
                        identityVars, roomMaps, adapterVars, runtimeVars,
                        finished>>
    ELSE /\ initCalls' = [initCalls EXCEPT ![i] = @ + 1]
         /\ ret' = [Result("start", 0, "ok", {<<"init", 0>>}, 0, 0)
                        EXCEPT !.instance = i]
         /\ UNCHANGED <<initialized, loadVars, tasks, registryVars, stopped,
                        identityVars, roomMaps, adapterVars, runtimeVars,
                        finished>>

\* start(): the guard on the module-level flag, then adapter.init().
Start(i) ==
    IF initialized
    THEN /\ ret' = [Result("start", 0, "AlreadyInitialized", {}, 0, 0)
                        EXCEPT !.instance = i]
         /\ UNCHANGED <<startVars, loadVars, tasks, registryVars, stopped,
                        identityVars, roomMaps, adapterVars, runtimeVars,
                        finished>>
    ELSE /\ initCalls' = [initCalls EXCEPT ![i] = @ + 1]
         /\ initialized' = TRUE
         /\ ret' = [Result("start", 0, "ok", {<<"init", 0>>}, 0, 0)
                        EXCEPT !.instance = i]
         /\ UNCHANGED <<loadVars, tasks, registryVars, stopped, identityVars,
                        roomMaps, adapterVars, runtimeVars, finished>>

\* A containsCharacter that finds every character.
containsCharacterAlways(options) == TRUE

\* A has() test that never finds the hash.
containsCharacterMissed(options) == FALSE

\* containsCharacter / the has() test of getOrCreateCharacter.
containsCharacter(options) ==
    generatePersonalityHash(options) \in DOMAIN runtimeCharacterMaps

\* getOrCreateCharacter(character): a registered hash constructs nothing.
getOrCreateCharacter(character) ==
    IF containsCharacter(character)
    THEN /\ ret' = Result("getOrCreateCharacter", 0, "existing", {}, 0, 0)
         /\ UNCHANGED <<startVars, loadVars, tasks, registryVars, stopped,
                        identityVars, roomMaps, adapterVars, runtimeVars,
                        finished>>
    ELSE LET runtime == runtimesConstructed + 1
             hash == generatePersonalityHash(character)
         IN /\ runtimesConstructed' = runtime
            /\ runtimeCharacterMaps' =
                   (hash :> [runtime |-> runtime, character |-> character])
                       @@ runtimeCharacterMaps
            /\ memories' = (runtime :> <<>>) @@ memories
            /\ providers' = (runtime :> <<>>) @@ providers
            /\ actions' = (runtime :> <<>>) @@ actions
            /\ ret' = Result("getOrCreateCharacter", 0, "created", {}, 0, 0)
            /\ UNCHANGED <<startVars, loadVars, tasks, stopped, identityVars,
                           roomMaps, adapterVars, genCalls, sends, finished>>

\* loadCharacter(character): throws "Character not found" for a character
\* that is not registered; else pushes it on this.characters and initializes
\* its runtime.
LoadCharacter(character) ==
    LET hash == generatePersonalityHash(character)
        characterData == IF hash \in DOMAIN runtimeCharacterMaps
                         THEN <<runtimeCharacterMaps[hash]>> ELSE <<>>
    IN IF ~ containsCharacter(character)
       THEN /\ ret' = [Result("loadCharacter", 0, "threw", {}, 0, 0)
                           EXCEPT !.character = hash]
            /\ UNCHANGED <<startVars, loadVars, tasks, registryVars, stopped,
                           identityVars, roomMaps, adapterVars, runtimeVars,
                           finished>>
       ELSE /\ Len(characters) < MaxLoads
            /\ characters' = Append(characters, character)
            /\ initializedRuntimes' =
                   initializedRuntimes
                       \cup {characterData[i].runtime : i \in DOMAIN characterData}
            /\ ret' = [Result("loadCharacter", 0, "ok",
                              {<<"initialize", characterData[i].runtime>> :
                                   i \in DOMAIN characterData}, 0, 0)
                           EXCEPT !.character = hash]
            /\ UNCHANGED <<startVars, tasks, registryVars, stopped,
                           identityVars, roomMaps, adapterVars, runtimeVars,
                           finished>>

\* stop(): stops the runtime of every registered character.
Stop ==
    /\ stopped' = stopped \cup
           {runtimeCharacterMaps[h].runtime : h \in DOMAIN runtimeCharacterMaps}
    /\ ret' = Result("stop", 0, "ok", {}, 0, 0)
    /\ UNCHANGED <<startVars, loadVars, tasks, registryVars, identityVars,
                   roomMaps, adapterVars, runtimeVars, finished>>

----
\* Storage adapter (spec section 6).

\* createRoom(roomId?): the id of the room it creates is the id it is given,
\* or a newly generated one.
createRoom(persistenceToken) ==
    IF persistenceToken # 0 THEN persistenceToken ELSE -(uuidCount + 1)

\* getRoom(roomId): the id of the room when it exists, else absent.
getRoom(token) == IF token \in dbRooms THEN token ELSE 0

\* getParticipantsForRoom(roomId) over a participant table.
getParticipantsForRoom(table, roomId) ==
    {p[2] : p \in {q \in table : q[1] = roomId}}

\* The agent id of a runtime.
agentId(runtime) == -runtime

----
\* Conversations.

\* A conversation object this framework did not create (its secret is unknown
\* to roomMaps).
ForeignConversation == [id |-> 0, secret |-> 0, persistenceToken |-> 0]

\* The conversation objects a caller can pass.
ConvArgs == {convs[i] : i \in DOMAIN convs} \cup {ForeignConversation}

\* The first loop with its test inverted: it removes the participants that
\* a user of the list has as id.
ToRemoveInverted(participants, users) ==
    {p \in participants : \E i \in DOMAIN users : users[i].id = p}

\* The first loop of setConversationUsers: the participants of the snapshot
\* that no user of the list has as id.
ToRemove(participants, users) ==
    {p \in participants : ~ \E i \in DOMAIN users : users[i].id = p}

\* The second loop without its includes() test: every user of the list.
ToAddEveryUser(participants, users) ==
    {users[i].id : i \in DOMAIN users}

\* The second loop of setConversationUsers: the users of the list that the
\* snapshot does not include.
ToAdd(participants, users) ==
    {users[i].id : i \in {j \in DOMAIN users : users[j].id \notin participants}}

\* The participant table after setConversationUsers on roomId.
ReconcileTable(table, roomId, users) ==
    LET participants == getParticipantsForRoom(table, roomId)
    IN (table \ {<<roomId, p>> : p \in ToRemove(participants, users)})
           \cup {<<roomId, u>> : u \in ToAdd(participants, users)}

\* The adapter and runtime calls setConversationUsers issues on roomId.
ReconcileCalls(table, roomId, users) ==
    LET participants == getParticipantsForRoom(table, roomId)
    IN {<<"getParticipantsForRoom", 0>>}
           \cup {<<"removeParticipant", p>> : p \in ToRemove(participants, users)}
           \cup {<<"ensureConnection", u>> : u \in ToAdd(participants, users)}
           \cup {<<"addParticipant", u>> : u \in ToAdd(participants, users)}

\* A lookup that falls back to the binding of some registered character.
getAgentOrAny(hash) ==
    IF hash \in DOMAIN runtimeCharacterMaps
    THEN <<runtimeCharacterMaps[hash]>>
    ELSE IF DOMAIN runtimeCharacterMaps = {} THEN <<>>
    ELSE <<runtimeCharacterMaps[CHOOSE h \in DOMAIN runtimeCharacterMaps :
                                    TRUE]>>

\* this.runtimeCharacterMaps.get(hash): the binding of the hash, if any.
getAgent(hash) ==
    IF hash \in DOMAIN runtimeCharacterMaps
    THEN <<runtimeCharacterMaps[hash]>> ELSE <<>>

\* createConversation({character, users, persistenceToken}).  duplicate is
\* what the adapter does when the room id it is given already exists: it
\* returns the id, or it throws.
CreateConversation(character, users, persistenceToken, duplicate) ==
    LET hash == generatePersonalityHash(character)
        roomId == createRoom(persistenceToken)
    IN IF getAgent(hash) = <<>>
       THEN /\ ret' = [Result("createConversation", 0, "empty", {}, 0, 0)
                           EXCEPT !.character = hash]
            /\ UNCHANGED <<startVars, loadVars, tasks, registryVars, stopped,
                           identityVars, roomMaps, adapterVars, runtimeVars,
                           finished>>
       ELSE IF roomId \in dbRooms /\ duplicate = "throw"
       THEN /\ ret' = [Result("createConversation", roomId, "threw", {}, 0,
                              0) EXCEPT !.character = hash]
            /\ UNCHANGED <<startVars, loadVars, tasks, registryVars, stopped,
                           identityVars, roomMaps, adapterVars, runtimeVars,
                           finished>>
       ELSE LET agent == getAgent(hash)[1]
                id == conversationCount + 1
                table == dbParticipants \cup {<<roomId, agentId(agent.runtime)>>}
            IN /\ conversationCount < MaxConv
               /\ dbRooms' = dbRooms \cup {roomId}
               /\ uuidCount' = IF persistenceToken # 0 THEN uuidCount
                               ELSE uuidCount + 1
               /\ conversationCount' = id
               /\ conversationIdMap' = (id :> roomId) @@ conversationIdMap
               /\ roomMaps' = (roomId :> [users |-> users,
                                          runtimeCharacterMap |-> agent])
                                  @@ roomMaps
               /\ dbParticipants' = ReconcileTable(table, roomId, users)
               /\ convs' = Append(convs, [id |-> id, secret |-> roomId,
                                          persistenceToken |-> persistenceToken])
               /\ ret' = [Result("createConversation", roomId, "ok",
                                 {<<"createRoom", 0>>,
                                  <<"addParticipant", agentId(agent.runtime)>>}
                                     \cup ReconcileCalls(table, roomId, users),
                                 0, id) EXCEPT !.users = users,
                                               !.character = hash]
               /\ UNCHANGED <<startVars, loadVars, tasks, registryVars,
                              stopped, runtimeVars, finished>>

\* A finishConversation that also deletes the RoomBinding of the conversation.
FinishConversationForgetting(conversation) ==
    /\ dbRooms' = dbRooms \ {conversation.secret}
    /\ finished' = finished \cup {conversation.id}
    /\ roomMaps' = [s \in DOMAIN roomMaps \ {conversation.secret} |->
                        roomMaps[s]]
    /\ ret' = Result("finishConversation", conversation.secret, "ok",
                     {<<"removeRoom", 0>>}, 0, conversation.id)
    /\ UNCHANGED <<startVars, loadVars, tasks, registryVars, stopped,
                   identityVars, dbParticipants, uuidCount, runtimeVars>>

\* finishConversation(conversation): removeRoom on the adapter, nothing else.
FinishConversation(conversation) ==
    /\ dbRooms' = dbRooms \ {conversation.secret}
    /\ finished' = finished \cup {conversation.id}
    /\ ret' = Result("finishConversation", conversation.secret, "ok",
                     {<<"removeRoom", 0>>}, 0, conversation.id)
    /\ UNCHANGED <<startVars, loadVars, tasks, registryVars, stopped,
                   identityVars, roomMaps, dbParticipants, uuidCount,
                   runtimeVars>>

\* setConversationUsers(conversation, users).
SetConversationUsers(conversation, users) ==
    LET secret == conversation.secret
    IN IF secret \notin DOMAIN roomMaps
       THEN /\ ret' = [Result("setConversationUsers", secret, "noRoom", {},
                              0, 0) EXCEPT !.users = users]
            /\ UNCHANGED <<startVars, loadVars, tasks, registryVars, stopped,
                           identityVars, roomMaps, adapterVars, runtimeVars,
                           finished>>
       ELSE /\ roomMaps' = [roomMaps EXCEPT ![secret].users = users]
            /\ dbParticipants' = ReconcileTable(dbParticipants, secret, users)
            /\ ret' = [Result("setConversationUsers", secret, "ok",
                              ReconcileCalls(dbParticipants, secret, users),
                              0, conversation.id)
                           EXCEPT !.users = users,
                                  !.repeat = /\ ret.op = "setConversationUsers"
                                             /\ ret.status = "ok"
                                             /\ ret.secret = secret
                                             /\ ret.users = users]
            /\ UNCHANGED <<startVars, loadVars, tasks, registryVars, stopped,
                           identityVars, dbRooms, uuidCount, runtimeVars,
                           finished>>

\* The scan of setConversationCharacter that decides whether the runtime of
\* the conversation's current binding is stopped.
shouldStop(character) ==
    ~ \E s \in DOMAIN roomMaps :
        generatePersonalityHash(roomMaps[s].runtimeCharacterMap.character)
            = generatePersonalityHash(character)

\* A repointing that builds the RoomBinding anew, as createConversation does.
repointFresh(roomData, charMap) ==
    [users |-> <<>>, runtimeCharacterMap |-> charMap]

\* roomData.runtimeCharacterMap = charMap.
repoint(roomData, charMap) ==
    [roomData EXCEPT !.runtimeCharacterMap = charMap]

\* setConversationCharacter(conversation, character).
SetConversationCharacter(conversation, character) ==
    LET secret == conversation.secret
        hash == generatePersonalityHash(character)
    IN IF secret \notin DOMAIN roomMaps
       THEN /\ ret' = [Result("setConversationCharacter", secret, "noRoom",
                              {}, 0, 0) EXCEPT !.character = hash]
            /\ UNCHANGED <<startVars, loadVars, tasks, registryVars, stopped,
                           identityVars, roomMaps, adapterVars, runtimeVars,
                           finished>>
       ELSE IF hash \notin DOMAIN runtimeCharacterMaps
       THEN /\ ret' = [Result("setConversationCharacter", secret, "threw",
                              {}, 0, 0) EXCEPT !.character = hash]
            /\ UNCHANGED <<startVars, loadVars, tasks, registryVars, stopped,
                           identityVars, roomMaps, adapterVars, runtimeVars,
                           finished>>
       ELSE LET current == roomMaps[secret].runtimeCharacterMap.runtime
                stop == shouldStop(character)
            IN /\ stopped' = IF stop THEN stopped \cup {current} ELSE stopped
               /\ roomMaps' = [roomMaps EXCEPT ![secret] =
                                   repoint(@, runtimeCharacterMaps[hash])]
               /\ ret' = [Result("setConversationCharacter", secret, "ok", {},
                                 IF stop THEN current ELSE 0, conversation.id)
                              EXCEPT !.character = hash]
               /\ UNCHANGED <<startVars, loadVars, tasks, registryVars,
                              identityVars, adapterVars, runtimeVars, finished>>

\* Array.from(conversationIdMap.entries()).find(([, value]) => value === secret):
\* the key of the first entry, in insertion order, that holds the secret; 0
\* when there is none.
findMapKey(secret) ==
    LET keys == {k \in DOMAIN conversationIdMap : conversationIdMap[k] = secret}
    IN IF keys = {} THEN 0
       ELSE CHOOSE k \in keys : \A j \in keys : k <= j

\* The conversation getConversationBy builds from a RoomBinding.
Found(id, secret, persistenceToken) ==
    <<[id |-> id, secret |-> secret,
       character |-> roomMaps[secret].runtimeCharacterMap.character,
       users |-> roomMaps[secret].users,
       persistenceToken |-> persistenceToken]>>

\* getConversationBy({id}): the first branch.
getConversationById(id, persistenceToken) ==
    LET secret == IF id \in DOMAIN conversationIdMap
                  THEN conversationIdMap[id] ELSE 0
    IN IF secret = 0 THEN <<>>
       ELSE IF getRoom(secret) = 0 THEN <<>>
       ELSE IF secret \notin DOMAIN roomMaps THEN <<>>
       ELSE Found(id, secret, persistenceToken)

\* getConversationBy({secret}): the second branch.
getConversationBySecret(secret, persistenceToken) ==
    IF getRoom(secret) = 0 THEN <<>>
    ELSE IF secret \notin DOMAIN roomMaps THEN <<>>
    ELSE IF findMapKey(secret) = 0 THEN <<>>
    ELSE Found(findMapKey(secret), secret, persistenceToken)

\* getConversationBy({persistenceToken}): the third branch.
getConversationByToken(persistenceToken) ==
    LET room == getRoom(persistenceToken)
    IN IF room = 0 THEN <<>>
       ELSE IF room \notin DOMAIN roomMaps THEN <<>>
       ELSE IF findMapKey(room) = 0 THEN <<>>
       ELSE Found(findMapKey(room), room, persistenceToken)

\* getConversationBy({id, secret, persistenceToken}): the first selector that
\* is truthy decides.
getConversationBy(id, secret, persistenceToken) ==
    IF id # 0 THEN getConversationById(id, persistenceToken)
    ELSE IF secret # 0 THEN getConversationBySecret(secret, persistenceToken)
    ELSE IF persistenceToken # 0 THEN getConversationByToken(persistenceToken)
    ELSE <<>>

\* The selectors a caller passes: one of the three, the others undefined.
Selectors ==
    {<<i, 0, 0>> : i \in 1..MaxConv}
        \cup {<<0, s, 0>> : s \in Tokens \cup {-k : k \in 1..MaxConv}}
        \cup {<<0, 0, t>> : t \in Tokens}

\* A getConversationBy call: a read, it changes no state of the framework.
GetConversationBy(sel) ==
    LET found == getConversationBy(sel[1], sel[2], sel[3])
    IN /\ ret' = IF found = <<>>
                 THEN Result("getConversationBy", 0, "absent", {}, 0, 0)
                 ELSE Result("getConversationBy", found[1].secret, "found",
                             {<<"getRoom", 0>>}, 0, found[1].id)
       /\ UNCHANGED <<startVars, loadVars, tasks, registryVars, stopped,
                      identityVars, roomMaps, adapterVars, runtimeVars,
                      finished>>

----
\* Message pipeline.

\* A lookup that falls back to a default display name.
findUsernameOrDefault(users, playerId) ==
    LET hits == {i \in DOMAIN users : users[i].id = playerId}
    IN IF hits = {} THEN "User"
       ELSE users[CHOOSE i \in hits : \A j \in hits : i <= j].name

\* roomData.users.find((user) => user.id === playerId)?.name; the empty
\* string when no user of the roster has the id.
findUsername(users, playerId) ==
    LET hits == {i \in DOMAIN users : users[i].id = playerId}
    IN IF hits = {} THEN ""
       ELSE users[CHOOSE i \in hits : \A j \in hits : i <= j].name

\* The ids a caller passes as sender.
PlayerIds == {1, 2, 3}

\* What the dialogue generation returns: nothing, or a response with its
\* text (possibly empty) and the action it selects (or none, "").
Responses ==
    {[present |-> FALSE, text |-> "", action |-> ""],
     [present |-> TRUE, text |-> "hi", action |-> ""],
     [present |-> TRUE, text |-> "hi", action |-> "setMood"],
     [present |-> TRUE, text |-> "", action |-> "setMood"]}

\* What the structured generation of an action handler returns: nothing, or
\* an object with a message and parameters keyed by position, "0", "1", ...
Objects ==
    {<<>>, <<[message |-> "why", parameters |-> (0 :> "happy")]>>}

\* A test of the response that never finds it missing.
responseMissingNever(response) == FALSE

\* if (!response): the dialogue generation returned nothing.
responseMissing(response) == ~ response.present

\* Installed actions that declare suppressInitialMessage.
installedActionsSuppressing(functions) ==
    [i \in DOMAIN functions |->
        [name |-> functions[i].name, parameters |-> functions[i].parameters,
         suppressInitialMessage |-> TRUE]]

\* The actions sendToConversation installs for the declared functions.
installedActions(functions) ==
    [i \in DOMAIN functions |->
        [name |-> functions[i].name, parameters |-> functions[i].parameters,
         suppressInitialMessage |-> FALSE]]

\* list.find((a) => a.name === name): the first action of the name, if any.
findAction(list, name) ==
    LET hits == {i \in DOMAIN list : list[i].name = name}
    IN IF hits = {} THEN <<>>
       ELSE <<list[CHOOSE i \in hits : \A j \in hits : i <= j]>>

\* A remapping that counts the declared parameters from the last one.
mappedParamsReversed(func, parameters) ==
    LET keys == DOMAIN parameters
        n == Len(func.parameters)
        names == {func.parameters[n - k] : k \in keys} \ {""}
    IN [m \in names |->
           parameters[CHOOSE k \in keys :
                          /\ func.parameters[n - k] = m
                          /\ \A j \in keys :
                                 func.parameters[n - j] = m => j <= k]]

\* The reduce of the handler over Object.keys(respObject.parameters): the
\* value of key k goes under the name of the k-th declared parameter (from 0),
\* a later key overwrites an earlier one of the same name, and a parameter
\* whose name is empty is dropped.
mappedParams(func, parameters) ==
    LET keys == DOMAIN parameters
        names == {func.parameters[k + 1] : k \in keys} \ {""}
    IN [n \in names |->
           parameters[CHOOSE k \in keys :
                          /\ func.parameters[k + 1] = n
                          /\ \A j \in keys :
                                 func.parameters[j + 1] = n => j <= k]]

\* The handler of an installed action, called with a state and a callback:
\* what it passes to the callback, if it calls it.  When the structured
\* generation returns no object the handler returns a {status: 500} value to
\* its caller and the callback is not called.
handler(func, object) ==
    IF object = <<>> THEN <<>>
    ELSE <<[text |-> object[1].message, action |-> func.name,
            hasData |-> TRUE,
            parameters |-> mappedParams(func, object[1].parameters)]>>

\* The response of the dialogue generation as a content: it carries no data.
responseContent(response) ==
    [text |-> response.text, action |-> response.action, hasData |-> FALSE,
     parameters |-> <<>>]

\* respContent: the response unless the selected action suppresses it, then
\* the message the callback collected, if any.
respContent(response, message, shouldSuppressInitialMessage) ==
    (IF shouldSuppressInitialMessage THEN <<>>
     ELSE <<responseContent(response)>>) \o message

\* respContent.find((r) => r.text)?.text; "" when no content has a text.
contentOf(contents) ==
    LET hits == {i \in DOMAIN contents : contents[i].text # ""}
    IN IF hits = {} THEN ""
       ELSE contents[CHOOSE i \in hits : \A j \in hits : i <= j].text

\* A filter of the contents that keeps every content naming an action.
callsOfEveryAction(contents) ==
    LET kept == SelectSeq(contents, LAMBDA r : r.action # "")
    IN [i \in DOMAIN kept |->
           [name |-> kept[i].action, message |-> kept[i].text,
            parameters |-> kept[i].parameters]]

\* respContent.filter((r) => r.action && r.data).map(...).
callsOf(contents) ==
    LET kept == SelectSeq(contents, LAMBDA r : r.action # "" /\ r.hasData)
    IN [i \in DOMAIN kept |->
           [name |-> kept[i].action, message |-> kept[i].text,
            parameters |-> kept[i].parameters]]

\* sendToConversation(conversation, message, playerId, context) run without
\* interruption; response is what generateMessageResponse returns, object
\* what the structured generation returns to the handler of the selected
\* action.
SendToConversation(conversation, playerId, context, response, object) ==
    LET secret == conversation.secret
    IN IF secret \notin DOMAIN roomMaps
       THEN /\ ret' = [Result("sendToConversation", secret,
                              "404 Room not found", {}, 0, 0)
                           EXCEPT !.playerId = playerId]
            /\ UNCHANGED <<startVars, loadVars, tasks, registryVars, stopped,
                           identityVars, roomMaps, adapterVars, runtimeVars,
                           finished>>
       ELSE IF findUsername(roomMaps[secret].users, playerId) = ""
       THEN /\ ret' = [Result("sendToConversation", secret,
                              "404 User not found", {}, 0, 0)
                           EXCEPT !.playerId = playerId]
            /\ UNCHANGED <<startVars, loadVars, tasks, registryVars, stopped,
                           identityVars, roomMaps, adapterVars, runtimeVars,
                           finished>>
       ELSE LET roomData == roomMaps[secret]
                runtime == roomData.runtimeCharacterMap.runtime
                character == roomData.runtimeCharacterMap.character
                memory == [userId |-> playerId, roomId |-> secret,
                           kind |-> "message"]
                responseMessage == [userId |-> playerId, roomId |-> secret,
                                    kind |-> "response"]
                installed == installedActions(character.functions)
                \* processActions: the handler of the action the response
                \* selects, looked up in runtime.actions
                selected == findAction(installed, response.action)
                message == IF selected = <<>> THEN <<>>
                           ELSE handler(selected[1], object)
                \* looked up again for suppressInitialMessage
                shouldSuppress ==
                    /\ selected # <<>>
                    /\ selected[1].suppressInitialMessage
                contents == respContent(response, message, shouldSuppress)
            IN /\ sends < MaxSends
               /\ sends' = sends + 1
               /\ providers' = [providers EXCEPT ![runtime] =
                                    <<[pairs |-> context]>>]
               /\ IF ~ character.declared
                  THEN \* if (functions) is false: the method ends without
                       \* a return statement
                       /\ memories' = [memories EXCEPT ![runtime] =
                                           Append(@, memory)]
                       /\ ret' = [Result("sendToConversation", secret,
                                         "undefined", {}, 0, 0)
                                      EXCEPT !.playerId = playerId,
                                             !.runtime = runtime]
                       /\ UNCHANGED <<actions, genCalls>>
                  ELSE IF responseMissing(response)
                  THEN /\ actions' = [actions EXCEPT ![runtime] = installed]
                       /\ memories' = [memories EXCEPT ![runtime] =
                                           Append(@, memory)]
                       /\ genCalls' = genCalls + 1
                       /\ ret' = [Result("sendToConversation", secret, "500",
                                         {<<"composeState", 0>>,
                                          <<"generateMessageResponse", 0>>},
                                         0, 0)
                                      EXCEPT !.playerId = playerId,
                                             !.runtime = runtime]
                  ELSE /\ actions' = [actions EXCEPT ![runtime] = installed]
                       /\ memories' = [memories EXCEPT ![runtime] =
                                           Append(Append(@, memory),
                                                  responseMessage)]
                       /\ genCalls' = genCalls
                                          + (IF selected # <<>> THEN 2 ELSE 1)
                       /\ ret' = [Result("sendToConversation", secret, "ok",
                                         {<<"composeState", 0>>,
                                          <<"generateMessageResponse", 0>>,
                                          <<"updateRecentMessageState", 0>>,
                                          <<"processActions", 0>>,
                                          <<"evaluate", 0>>}
                                             \cup (IF selected # <<>>
                                                   THEN {<<"generateObject", 0>>}
                                                   ELSE {})
                                             \cup (IF message # <<>>
                                                   THEN {<<"callback", 0>>}
                                                   ELSE {}),
                                         0, conversation.id)
                                      EXCEPT !.playerId = playerId,
                                             !.runtime = runtime,
                                             !.response =
                                                 IF response.present
                                                 THEN <<response>> ELSE <<>>,
                                             !.object =
                                                 IF selected # <<>>
                                                 THEN object ELSE <<>>,
                                             !.content = contentOf(contents),
                                             !.resultCalls = callsOf(contents)]
               /\ UNCHANGED <<startVars, loadVars, tasks, registryVars,
                              stopped, identityVars, roomMaps, adapterVars,
                              finished>>

----
\* Calls in flight.  An async method runs without interruption from one await
\* to the next; each action below is one such stretch of one call, and the
\* stretches of the calls in flight interleave in any order.

\* The calls of an operation in flight on a conversation.
InFlight(op, secret) ==
    {u \in Tasks : /\ tasks[u].op = op
                   /\ tasks[u].secret = secret
                   /\ tasks[u].pc \notin {"idle", "done"}}

\* The participants of the snapshot the removal loop has yet to remove.
pendingRemove(task) == ToRemove(task.participants, task.users) \ task.removed

\* An addition loop that adds nobody.
nextToAddNone(users, participants, i) == 0

\* The addition loop from position i: the position of the next user whose id
\* is not in the snapshot (!participants.includes(user.id)), 0 when there is
\* none.
nextToAdd(users, participants, i) ==
    LET js == {j \in i..Len(users) : users[j].id \notin participants}
    IN IF js = {} THEN 0 ELSE CHOOSE j \in js : \A k \in js : j <= k

\* Where a setConversationUsers call suspends next.
pcAfter(task) ==
    IF pendingRemove(task) # {} THEN "removeParticipant"
    ELSE IF nextToAdd(task.users, task.participants, task.i) # 0
    THEN "addParticipant"
    ELSE "done"

\* What a step of a setConversationUsers call leaves in ret: the returned
\* call when the step was its last, else what was there.
retAfterUsers(task) ==
    IF task.pc = "done"
    THEN [Result("setConversationUsers", task.secret, "ok", {}, 0, task.id)
              EXCEPT !.users = task.users]
    ELSE ret

\* setConversationUsers up to its first await: the roster is replaced, then
\* the call waits for db.getParticipantsForRoom.
BeginSetConversationUsers(t, conversation, users) ==
    LET secret == conversation.secret
        others == InFlight("setConversationUsers", secret)
    IN /\ tasks[t].pc = "idle"
       /\ IF secret \notin DOMAIN roomMaps
          THEN /\ tasks' = [tasks EXCEPT ![t] =
                               [IdleTask EXCEPT !.op = "setConversationUsers",
                                                !.pc = "done",
                                                !.status = "noRoom"]]
               /\ ret' = [Result("setConversationUsers", secret, "noRoom", {},
                                 0, 0) EXCEPT !.users = users]
               /\ UNCHANGED roomMaps
          ELSE /\ roomMaps' = [roomMaps EXCEPT ![secret].users = users]
               /\ tasks' =
                      [u \in Tasks |->
                          IF u = t
                          THEN [IdleTask EXCEPT
                                    !.op = "setConversationUsers",
                                    !.pc = "getParticipantsForRoom",
                                    !.secret = secret,
                                    !.id = conversation.id,
                                    !.users = users,
                                    !.overlapped = others # {}]
                          ELSE IF u \in others
                          THEN [tasks[u] EXCEPT !.overlapped = TRUE]
                          ELSE tasks[u]]
               /\ UNCHANGED ret
       /\ UNCHANGED <<startVars, loadVars, registryVars, stopped,
                      identityVars, adapterVars, runtimeVars, finished>>

\* db.getParticipantsForRoom answers: the call holds the participants the
\* room has now, and runs on to its next await or to its end.
GetParticipantsForRoom(t) ==
    LET task == [tasks[t] EXCEPT
                     !.participants =
                         getParticipantsForRoom(dbParticipants, tasks[t].secret)]
        after == [task EXCEPT !.pc = pcAfter(task)]
    IN /\ tasks[t].op = "setConversationUsers"
       /\ tasks[t].pc = "getParticipantsForRoom"
       /\ tasks' = [tasks EXCEPT ![t] = after]
       /\ ret' = retAfterUsers(after)
       /\ UNCHANGED <<startVars, loadVars, registryVars, stopped,
                      identityVars, roomMaps, adapterVars, runtimeVars,
                      finished>>

\* db.removeParticipant of one participant of the snapshot that is not in
\* the users of the call.
RemoveParticipant(t) ==
    /\ tasks[t].op = "setConversationUsers"
    /\ tasks[t].pc = "removeParticipant"
    /\ \E participant \in pendingRemove(tasks[t]) :
           LET task == [tasks[t] EXCEPT !.removed = @ \cup {participant}]
               after == [task EXCEPT !.pc = pcAfter(task)]
           IN /\ dbParticipants' =
                     dbParticipants \ {<<tasks[t].secret, participant>>}
              /\ tasks' = [tasks EXCEPT ![t] = after]
              /\ ret' = retAfterUsers(after)
    /\ UNCHANGED <<startVars, loadVars, registryVars, stopped, identityVars,
                   roomMaps, dbRooms, uuidCount, runtimeVars, finished>>

\* runtime.ensureConnection and db.addParticipant of the next user whose id
\* is not in the snapshot.
AddParticipant(t) ==
    LET j == nextToAdd(tasks[t].users, tasks[t].participants, tasks[t].i)
        task == [tasks[t] EXCEPT !.i = j + 1]
        after == [task EXCEPT !.pc = pcAfter(task)]
    IN /\ tasks[t].op = "setConversationUsers"
       /\ tasks[t].pc = "addParticipant"
       /\ j # 0
       /\ dbParticipants' =
              dbParticipants \cup {<<tasks[t].secret, tasks[t].users[j].id>>}
       /\ tasks' = [tasks EXCEPT ![t] = after]
       /\ ret' = retAfterUsers(after)
       /\ UNCHANGED <<startVars, loadVars, registryVars, stopped,
                      identityVars, roomMaps, dbRooms, uuidCount, runtimeVars,
                      finished>>

\* The sendToConversation calls in flight on a runtime.
InFlightOn(runtime) ==
    {u \in Tasks : /\ tasks[u].op = "sendToConversation"
                   /\ tasks[u].runtime = runtime
                   /\ tasks[u].pc \notin {"idle", "done"}}

\* An installation that keeps the actions the runtime already has.
installKept(current, fresh) == IF current # <<>> THEN current ELSE fresh

\* runtime.actions = functions.map(...): the list of the call replaces the
\* one the runtime had.
install(current, fresh) == fresh

\* The list a call builds: each action carries the closure of the call that
\* built it (owner).
installedActionsBy(functions, t) ==
    [i \in DOMAIN functions |->
        [name |-> functions[i].name, parameters |-> functions[i].parameters,
         suppressInitialMessage |-> FALSE, owner |-> t]]

\* The calls whose closures a list holds.
Owners(list) == {list[i].owner : i \in DOMAIN list}

\* The value a sendToConversation call that has returned leaves in ret.
retOfSend(task) ==
    [Result("sendToConversation", task.secret, task.status, {}, 0, task.id)
         EXCEPT !.playerId = task.playerId, !.runtime = task.runtime,
                !.response = task.response]

\* sendToConversation up to its first await: the room and the runtime are
\* resolved, the user is looked up, the memory is built, and the call waits
\* for addEmbeddingToMemory and createMemory.
BeginSendToConversation(t, conversation, playerId, context) ==
    LET secret == conversation.secret
    IN /\ tasks[t].pc = "idle"
       /\ IF secret \notin DOMAIN roomMaps
          THEN LET task == [IdleTask EXCEPT !.op = "sendToConversation",
                                            !.pc = "done", !.secret = secret,
                                            !.playerId = playerId,
                                            !.status = "404 Room not found"]
               IN /\ tasks' = [tasks EXCEPT ![t] = task]
                  /\ ret' = retOfSend(task)
          ELSE IF findUsername(roomMaps[secret].users, playerId) = ""
          THEN LET task == [IdleTask EXCEPT !.op = "sendToConversation",
                                            !.pc = "done", !.secret = secret,
                                            !.playerId = playerId,
                                            !.status = "404 User not found"]
               IN /\ tasks' = [tasks EXCEPT ![t] = task]
                  /\ ret' = retOfSend(task)
          ELSE LET runtime == roomMaps[secret].runtimeCharacterMap.runtime
                   others == InFlightOn(runtime)
               IN /\ tasks' =
                         [u \in Tasks |->
                             IF u = t
                             THEN [IdleTask EXCEPT
                                       !.op = "sendToConversation",
                                       !.pc = "createMemory",
                                       !.secret = secret,
                                       !.id = conversation.id,
                                       !.playerId = playerId,
                                       !.runtime = runtime,
                                       !.context = context,
                                       !.overlapped = others # {}]
                             ELSE IF u \in others
                             THEN [tasks[u] EXCEPT !.overlapped = TRUE]
                             ELSE tasks[u]]
                  /\ UNCHANGED ret
       /\ UNCHANGED <<startVars, loadVars, registryVars, stopped,
                      identityVars, roomMaps, adapterVars, runtimeVars,
                      finished>>

\* createMemory answers; then, without an await: the provider is assigned,
\* the functions are read from the RoomBinding, the actions are assigned and
\* composeState is called.  The runtime is the one resolved at the start of
\* the call.
CreateMemory(t) ==
    LET task == tasks[t]
        runtime == task.runtime
        character == roomMaps[task.secret].runtimeCharacterMap.character
        memory == [userId |-> task.playerId, roomId |-> task.secret,
                   kind |-> "message"]
    IN /\ task.op = "sendToConversation"
       /\ task.pc = "createMemory"
       /\ memories' = [memories EXCEPT ![runtime] = Append(@, memory)]
       /\ providers' = [providers EXCEPT ![runtime] =
                            <<[pairs |-> task.context]>>]
       /\ IF ~ character.declared
          THEN LET after == [task EXCEPT !.pc = "done", !.status = "undefined"]
               IN /\ tasks' = [tasks EXCEPT ![t] = after]
                  /\ ret' = retOfSend(after)
                  /\ UNCHANGED actions
          ELSE /\ actions' = [actions EXCEPT ![runtime] =
                                  install(@, installedActionsBy(
                                                 character.functions, t))]
               /\ tasks' = [tasks EXCEPT ![t] =
                               [task EXCEPT
                                    !.pc = "composeState",
                                    !.installed = TRUE,
                                    !.functions = character.functions,
                                    !.stoppedAtInstall = runtime \in stopped]]
               /\ UNCHANGED ret
       /\ UNCHANGED <<startVars, loadVars, registryVars, stopped,
                      identityVars, roomMaps, adapterVars, genCalls, sends,
                      finished>>

\* composeState answers: while composing, the runtime has queried the
\* providers it holds; then generateMessageResponse is called.
ComposeState(t) ==
    /\ tasks[t].op = "sendToConversation"
    /\ tasks[t].pc = "composeState"
    /\ tasks' = [tasks EXCEPT ![t] =
                    [@ EXCEPT !.pc = "generateMessageResponse",
                              !.rendered = providers[tasks[t].runtime]]]
    /\ UNCHANGED <<startVars, loadVars, registryVars, stopped, identityVars,
                   roomMaps, adapterVars, runtimeVars, finished, ret>>

\* generateMessageResponse answers: without a response the call returns
\* {status: 500}, else it waits for the memory of the response.
GenerateMessageResponse(t, response) ==
    /\ tasks[t].op = "sendToConversation"
    /\ tasks[t].pc = "generateMessageResponse"
    /\ genCalls' = genCalls + 1
    /\ IF responseMissing(response)
       THEN LET after == [tasks[t] EXCEPT !.pc = "done", !.status = "500"]
            IN /\ tasks' = [tasks EXCEPT ![t] = after]
               /\ ret' = retOfSend(after)
       ELSE /\ tasks' = [tasks EXCEPT ![t] =
                            [@ EXCEPT !.pc = "createResponseMemory",
                                      !.response = <<response>>]]
            /\ UNCHANGED ret
    /\ UNCHANGED <<startVars, loadVars, registryVars, stopped, identityVars,
                   roomMaps, adapterVars, memories, providers, actions, sends,
                   finished>>

\* The memory of the response is created and the recent-message state
\* refreshed; then processActions is called.
CreateResponseMemory(t) ==
    LET task == tasks[t]
        responseMessage == [userId |-> task.playerId, roomId |-> task.secret,
                            kind |-> "response"]
    IN /\ task.op = "sendToConversation"
       /\ task.pc = "createResponseMemory"
       /\ memories' = [memories EXCEPT ![task.runtime] =
                           Append(@, responseMessage)]
       /\ tasks' = [tasks EXCEPT ![t] = [@ EXCEPT !.pc = "processActions"]]
       /\ UNCHANGED <<startVars, loadVars, registryVars, stopped,
                      identityVars, roomMaps, adapterVars, providers, actions,
                      genCalls, sends, finished, ret>>

\* processActions answers: the runtime has looked the action of the response
\* up in the actions it holds and run its handler with the callback of the
\* call; object is what the structured generation returned to the handler.
ProcessActions(t, object) ==
    LET task == tasks[t]
        list == actions[task.runtime]
        selected == findAction(list, task.response[1].action)
        message == IF selected = <<>> THEN <<>>
                   ELSE handler(selected[1], object)
    IN /\ task.op = "sendToConversation"
       /\ task.pc = "processActions"
       /\ genCalls' = genCalls + (IF selected # <<>> THEN 1 ELSE 0)
       /\ tasks' = [tasks EXCEPT ![t] =
                       [@ EXCEPT !.pc = "evaluate", !.message = message,
                                 !.seen = @ \cup Owners(list)]]
       /\ UNCHANGED <<startVars, loadVars, registryVars, stopped,
                      identityVars, roomMaps, adapterVars, memories, providers,
                      actions, sends, finished, ret>>

\* evaluate answers; then, without an await: the action of the response is
\* looked up in runtime.actions and the result is built and returned.
Evaluate(t) ==
    LET task == tasks[t]
        list == actions[task.runtime]
        action == findAction(list, task.response[1].action)
        shouldSuppress == action # <<>> /\ action[1].suppressInitialMessage
        contents == respContent(task.response[1], task.message,
                                shouldSuppress)
        after == [task EXCEPT !.pc = "done", !.status = "ok",
                              !.seen = @ \cup Owners(list)]
    IN /\ task.op = "sendToConversation"
       /\ task.pc = "evaluate"
       /\ tasks' = [tasks EXCEPT ![t] = after]
       /\ ret' = [retOfSend(after) EXCEPT
                      !.content = contentOf(contents),
                      !.resultCalls = callsOf(contents)]
       /\ UNCHANGED <<startVars, loadVars, registryVars, stopped,
                      identityVars, roomMaps, adapterVars, runtimeVars,
                      finished>>

\* setConversationCharacter up to its await: the lookups and the scan; with
\* shouldStop the runtime of the current binding is told to stop and the
\* call waits for it, else the binding is repointed and the call returns.
BeginSetConversationCharacter(t, conversation, character) ==
    LET secret == conversation.secret
        hash == generatePersonalityHash(character)
        task == [IdleTask EXCEPT !.op = "setConversationCharacter",
                                 !.secret = secret, !.character = hash,
                                 !.id = conversation.id]
    IN /\ tasks[t].pc = "idle"
       /\ IF secret \notin DOMAIN roomMaps
          THEN /\ tasks' = [tasks EXCEPT ![t] =
                               [task EXCEPT !.pc = "done",
                                            !.status = "noRoom"]]
               /\ ret' = [Result("setConversationCharacter", secret,
                                 "noRoom", {}, 0, 0)
                              EXCEPT !.character = hash]
               /\ UNCHANGED <<stopped, roomMaps>>
          ELSE IF hash \notin DOMAIN runtimeCharacterMaps
          THEN /\ tasks' = [tasks EXCEPT ![t] =
                               [task EXCEPT !.pc = "done",
                                            !.status = "threw"]]
               /\ ret' = [Result("setConversationCharacter", secret, "threw",
                                 {}, 0, 0) EXCEPT !.character = hash]
               /\ UNCHANGED <<stopped, roomMaps>>
          ELSE IF shouldStop(character)
          THEN /\ stopped' = stopped \cup
                       {roomMaps[secret].runtimeCharacterMap.runtime}
               /\ tasks' = [tasks EXCEPT ![t] =
                               [task EXCEPT
                                    !.pc = "stop",
                                    !.runtime = roomMaps[secret]
                                        .runtimeCharacterMap.runtime]]
               /\ UNCHANGED <<roomMaps, ret>>
          ELSE /\ roomMaps' = [roomMaps EXCEPT ![secret] =
                                   repoint(@, runtimeCharacterMaps[hash])]
               /\ tasks' = [tasks EXCEPT ![t] =
                               [task EXCEPT !.pc = "done", !.status = "ok"]]
               /\ ret' = [Result("setConversationCharacter", secret, "ok", {},
                                 0, conversation.id)
                              EXCEPT !.character = hash]
               /\ UNCHANGED stopped
       /\ UNCHANGED <<startVars, loadVars, registryVars, identityVars,
                      adapterVars, runtimeVars, finished>>

\* runtime.stop() answers: the binding is repointed and the call returns.
StopAnswered(t) ==
    LET task == tasks[t]
    IN /\ task.op = "setConversationCharacter"
       /\ task.pc = "stop"
       /\ roomMaps' = [roomMaps EXCEPT ![task.secret] =
                           repoint(@, runtimeCharacterMaps[task.character])]
       /\ tasks' = [tasks EXCEPT ![t] =
                       [task EXCEPT !.pc = "done", !.status = "ok"]]
       /\ ret' = [Result("setConversationCharacter", task.secret, "ok", {},
                         task.runtime, task.id)
                      EXCEPT !.character = task.character]
       /\ UNCHANGED <<startVars, loadVars, registryVars, stopped,
                      identityVars, adapterVars, runtimeVars, finished>>

----
\* Specifications.  Each one is the framework under the calls of one group of
\* operations, from the state after construction.

\* Registry, conversation identity and character binding.
Next ==
    \/ \E character \in Defs : getOrCreateCharacter(character)
    \/ \E character \in Defs, persistenceToken \in TokenArgs,
          duplicate \in {"return", "throw"} :
           CreateConversation(character, <<User1>>, persistenceToken, duplicate)
    \/ \E conversation \in ConvArgs : FinishConversation(conversation)
    \/ \E conversation \in ConvArgs, character \in Defs :
           SetConversationCharacter(conversation, character)
    \/ \E sel \in Selectors : GetConversationBy(sel)

Spec == Init /\ [][Next]_vars

\* Participant reconciliation.
NextUsers ==
    \/ getOrCreateCharacter(DefAva)
    \/ \E users \in UserLists, persistenceToken \in TokenArgs :
           CreateConversation(DefAva, users, persistenceToken, "return")
    \/ \E conversation \in ConvArgs : FinishConversation(conversation)
    \/ \E conversation \in ConvArgs, users \in UserLists :
           SetConversationUsers(conversation, users)

SpecUsers == Init /\ [][NextUsers]_vars

\* Process lifecycle.
NextLifecycle ==
    \/ \E i \in Instances : Start(i)
    \/ Stop
    \/ \E character \in Defs : getOrCreateCharacter(character)
    \/ \E character \in Defs :
           CreateConversation(character, <<User1>>, 0, "return")
    \/ \E character \in Defs : LoadCharacter(character)

SpecLifecycle == Init /\ [][NextLifecycle]_vars

\* Message pipeline.
NextSend ==
    \/ \E character \in Defs : getOrCreateCharacter(character)
    \/ \E character \in Defs, users \in {<<User1>>, <<User3>>} :
           CreateConversation(character, users, 0, "return")
    \/ \E conversation \in ConvArgs, playerId \in PlayerIds,
          context \in Contexts,
          response \in {r \in Responses : r.text = "hi" \/ ~ r.present} :
           SendToConversation(conversation, playerId, context, response,
                              CHOOSE object \in Objects : object # <<>>)

SpecSend == Init /\ [][NextSend]_vars

\* Message pipeline, what the generative backend returns: one sender and one
\* context, every response of the dialogue generation and every result of
\* the structured generation, characters with and without a functions list.
NextGenerate ==
    \/ \E character \in AllDefs : getOrCreateCharacter(character)
    \/ \E character \in AllDefs :
           CreateConversation(character, <<User1>>, 0, "return")
    \/ \E conversation \in ConvArgs, response \in Responses,
          object \in Objects :
           SendToConversation(conversation, User1.id, <<>>, response, object)

SpecGenerate == Init /\ [][NextGenerate]_vars

\* Rosters set by calls in flight together.
RaceUserLists == {<<>>, <<User2>>, <<User1, User2>>}

NextRoster ==
    \/ getOrCreateCharacter(DefAva)
    \/ CreateConversation(DefAva, <<User1>>, 0, "return")
    \/ \E t \in Tasks, conversation \in ConvArgs, users \in RaceUserLists :
           BeginSetConversationUsers(t, conversation, users)
    \/ \E t \in Tasks : GetParticipantsForRoom(t)
    \/ \E t \in Tasks : RemoveParticipant(t)
    \/ \E t \in Tasks : AddParticipant(t)

SpecRoster == Init /\ [][NextRoster]_vars

\* The responses and generated objects of the calls in flight: no response,
\* or a response that selects the declared action; an object.
RaceResponses == {r \in Responses : ~ r.present \/ (r.text # "" /\ r.action # "")}

RaceObjects == {object \in Objects : object # <<>>}

\* sendToConversation calls in flight together on the conversations of one
\* character, hence on one runtime.
NextShared ==
    \/ getOrCreateCharacter(DefAva)
    \/ CreateConversation(DefAva, <<User1>>, 0, "return")
    \/ \E t \in Tasks, conversation \in ConvArgs, context \in Contexts :
           BeginSendToConversation(t, conversation, User1.id, context)
    \/ \E t \in Tasks : CreateMemory(t)
    \/ \E t \in Tasks : ComposeState(t)
    \/ \E t \in Tasks, response \in RaceResponses :
           GenerateMessageResponse(t, response)
    \/ \E t \in Tasks : CreateResponseMemory(t)
    \/ \E t \in Tasks, object \in RaceObjects : ProcessActions(t, object)
    \/ \E t \in Tasks : Evaluate(t)

SpecShared == Init /\ [][NextShared]_vars

\* A sendToConversation call and setConversationCharacter calls in flight
\* together.
NextRebind ==
    \/ \E character \in Defs : getOrCreateCharacter(character)
    \/ CreateConversation(DefAva, <<User1>>, 0, "return")
    \/ \E t \in Tasks, conversation \in ConvArgs :
           BeginSendToConversation(t, conversation, User1.id, <<>>)
    \/ \E t \in Tasks : CreateMemory(t)
    \/ \E t \in Tasks : ComposeState(t)
    \/ \E t \in Tasks, response \in RaceResponses :
           GenerateMessageResponse(t, response)
    \/ \E t \in Tasks : CreateResponseMemory(t)
    \/ \E t \in Tasks, object \in RaceObjects : ProcessActions(t, object)
    \/ \E t \in Tasks : Evaluate(t)
    \/ \E t \in Tasks, conversation \in ConvArgs, character \in Defs :
           BeginSetConversationCharacter(t, conversation, character)
    \/ \E t \in Tasks : StopAnswered(t)

SpecRebind == Init /\ [][NextRebind]_vars

\* Messages to conversations that may have been finished.
NextFinish ==
    \/ getOrCreateCharacter(DefAva)
    \/ \E persistenceToken \in TokenArgs :
           CreateConversation(DefAva, <<User1>>, persistenceToken, "return")
    \/ \E conversation \in ConvArgs : FinishConversation(conversation)
    \/ \E conversation \in ConvArgs, playerId \in {User1.id, User2.id},
          response \in RaceResponses, object \in RaceObjects :
           SendToConversation(conversation, playerId, <<>>, response, object)

SpecFinish == Init /\ [][NextFinish]_vars

\* Generated objects for a function of two parameters: any of the keys "0"
\* and "1", each with one of two values.
RemapObjects ==
    {<<[message |-> "why", parameters |-> f]>> :
         f \in UNION {[K -> {"a", "b"}] : K \in SUBSET {0, 1}}}

\* Messages that select the action of a character with two parameters.
NextRemap ==
    \/ \E character \in PairDefs : getOrCreateCharacter(character)
    \/ \E character \in PairDefs :
           CreateConversation(character, <<User1>>, 0, "return")
    \/ \E conversation \in ConvArgs, object \in RemapObjects :
           SendToConversation(conversation, User1.id, <<>>,
                              [present |-> TRUE, text |-> "hi",
                               action |-> "move"], object)

SpecRemap == Init /\ [][NextRemap]_vars

----
\* Properties.

\* The rooms bound to a runtime.
RoomsOn(runtime) ==
    {s \in DOMAIN roomMaps : roomMaps[s].runtimeCharacterMap.runtime = runtime}

\* C1: when setConversationCharacter(c, newCharacter) stops the runtime c was
\* bound to, no RoomBinding other than c's is bound to that runtime.
C1_StopsOnlyUnreferencedRuntime ==
    (ret.op = "setConversationCharacter" /\ ret.stoppedRuntime # 0)
        => RoomsOn(ret.stoppedRuntime) \subseteq {ret.secret}

\* C2: right after setConversationCharacter returns there are not two
\* distinct RoomBindings whose runtime has been stopped.
C2_NoTwoRoomsOnStoppedRuntime ==
    (ret.op = "setConversationCharacter" /\ ret.status = "ok")
        => ~ \E s1, s2 \in DOMAIN roomMaps :
               /\ s1 # s2
               /\ roomMaps[s1].runtimeCharacterMap.runtime \in stopped
               /\ roomMaps[s2].runtimeCharacterMap.runtime \in stopped

\* A conversation createConversation returned is live while no
\* finishConversation call was made on it and its storage room exists.
Live(c) == c.id \notin finished /\ c.secret \in dbRooms

\* A getConversationBy result is the conversation with this {id, secret}.
IsPair(found, id, secret) ==
    found # <<>> /\ found[1].id = id /\ found[1].secret = secret

\* C5: for every live conversation the three selectors of getConversationBy
\* (the persistence token when the conversation was created with one) return
\* the {id, secret} pair createConversation returned.
C5_SelectorsAgree ==
    \A i \in DOMAIN convs :
        Live(convs[i]) =>
            /\ IsPair(getConversationBy(convs[i].id, 0, 0),
                      convs[i].id, convs[i].secret)
            /\ IsPair(getConversationBy(0, convs[i].secret, 0),
                      convs[i].id, convs[i].secret)
            /\ convs[i].persistenceToken # 0 =>
                   IsPair(getConversationBy(0, 0, convs[i].persistenceToken),
                          convs[i].id, convs[i].secret)

\* C6: once finishConversation(c) has completed, getConversationBy with c's
\* id, c's secret or c's persistence token returns absent.
C6_FinishedIsAbsent ==
    \A i \in DOMAIN convs :
        convs[i].id \in finished =>
            /\ getConversationBy(convs[i].id, 0, 0) = <<>>
            /\ getConversationBy(0, convs[i].secret, 0) = <<>>
            /\ convs[i].persistenceToken # 0 =>
                   getConversationBy(0, 0, convs[i].persistenceToken) = <<>>

\* C7: conversationIdMap is a bijection between the assigned ids, which are
\* 1..conversationCount, and the secrets.
C7_IdMapBijection ==
    /\ DOMAIN conversationIdMap = 1..conversationCount
    /\ \A i, j \in DOMAIN conversationIdMap :
           conversationIdMap[i] = conversationIdMap[j] => i = j

\* The id set of a user list.
IdSet(users) == {users[i].id : i \in DOMAIN users}

\* C3: a setConversationUsers(c, U) call that runs to completion (also the
\* one createConversation makes) leaves the storage participant set of c's
\* room equal to the id set of U.
C3_ParticipantsEqualUsers ==
    (ret.op \in {"setConversationUsers", "createConversation"}
         /\ ret.status = "ok")
        => getParticipantsForRoom(dbParticipants, ret.secret) = IdSet(ret.users)

\* C3 witness: a call that removed a user and added another.
C3_Witness ==
    /\ ret.op = "setConversationUsers"
    /\ ret.status = "ok"
    /\ \E p \in 1..3 : <<"removeParticipant", p>> \in ret.calls
    /\ \E u \in 1..3 : <<"addParticipant", u>> \in ret.calls

\* C4: a second setConversationUsers(c, U) with the same U right after the
\* first issues only the getParticipantsForRoom read, and the roster and the
\* storage participant set are those the first call left.
C4_SecondCallIsNoOp ==
    (ret.op = "setConversationUsers" /\ ret.repeat)
        => /\ ret.calls = {<<"getParticipantsForRoom", 0>>}
           /\ roomMaps[ret.secret].users = ret.users
           /\ getParticipantsForRoom(dbParticipants, ret.secret)
                  = IdSet(ret.users)

\* C4 witness: a repeated call with a two-user list.
C4_Witness ==
    /\ ret.op = "setConversationUsers"
    /\ ret.repeat
    /\ ret.users = <<User2, User1>>

\* C8: runtimeCharacterMaps holds one RuntimeBinding per registered hash, each
\* with its own runtime, and no runtime was constructed beside them.
C8_OneBindingPerHash ==
    /\ Cardinality(DOMAIN runtimeCharacterMaps) = runtimesConstructed
    /\ \A h \in DOMAIN runtimeCharacterMaps :
           /\ generatePersonalityHash(runtimeCharacterMaps[h].character) = h
           /\ runtimeCharacterMaps[h].runtime \in 1..runtimesConstructed
    /\ \A h1, h2 \in DOMAIN runtimeCharacterMaps :
           runtimeCharacterMaps[h1].runtime = runtimeCharacterMaps[h2].runtime
               => h1 = h2

\* C8 witness: getOrCreateCharacter on a registered hash, two characters
\* registered.
C8_Witness ==
    /\ ret.op = "getOrCreateCharacter"
    /\ ret.status = "existing"
    /\ runtimesConstructed = 2

\* C9: once a start() has called adapter.init(), no step calls it again, and
\* every start() throws the already-initialized error.
C9_StartAtMostOnce ==
    [][(\E i \in Instances : initCalls[i] > 0)
           => /\ initCalls' = initCalls
              /\ ret'.op = "start" => ret'.status = "AlreadyInitialized"]_vars

\* C9 witness: start() throws on the second instance, after the first was
\* started and stop() stopped a runtime.
C9_Witness ==
    /\ ret.op = "start"
    /\ ret.status = "AlreadyInitialized"
    /\ ret.instance = "f2"
    /\ initCalls["f1"] = 1
    /\ stopped # {}

\* C10: a sendToConversation call on a conversation without RoomBinding, or
\* from a sender whose id is not in the roster, returns a 404 value and leaves
\* the memories, the providers, the actions and the backend untouched.
C10_NotFoundAppliesNothing ==
    [][(/\ ret'.op = "sendToConversation"
        /\ \/ ret'.secret \notin DOMAIN roomMaps
           \/ ret'.playerId \notin IdSet(roomMaps[ret'.secret].users))
           => /\ ret'.status \in {"404 Room not found", "404 User not found"}
              /\ UNCHANGED <<memories, providers, actions, genCalls>>]_vars

\* C10 witness: a 404 for a sender outside the roster, after a message was
\* handled.
C10_Witness ==
    /\ ret.op = "sendToConversation"
    /\ ret.status = "404 User not found"
    /\ ret.playerId \notin IdSet(roomMaps[ret.secret].users)
    /\ sends > 0

\* Everything of the framework, the adapter and the runtimes a call can
\* change (all the variables but the record of the last call).
stateVars == <<startVars, loadVars, tasks, registryVars, stopped,
               identityVars, roomMaps, adapterVars, runtimeVars, finished>>

\* The steps of the pipeline that follow the dialogue generation.
LaterSteps ==
    {<<"updateRecentMessageState", 0>>, <<"processActions", 0>>,
     <<"evaluate", 0>>, <<"generateObject", 0>>, <<"callback", 0>>}

\* C11: when the dialogue generation returns no response, sendToConversation
\* returns {status: 500} and none of the later steps happens: the last memory
\* of the runtime is the inbound message (no response memory), and the
\* recent-message refresh, processActions and evaluate are not called.
C11_NoResponseEndsThePipeline ==
    (/\ ret.op = "sendToConversation"
     /\ <<"generateMessageResponse", 0>> \in ret.calls
     /\ ret.response = <<>>)
        => /\ ret.status = "500"
           /\ ret.calls \cap LaterSteps = {}
           /\ memories[ret.runtime][Len(memories[ret.runtime])].kind
                  = "message"

C11_Witness ==
    /\ ret.op = "sendToConversation"
    /\ <<"generateMessageResponse", 0>> \in ret.calls
    /\ ret.response = <<>>
    /\ ret.status = "500"

\* C12: no failure is reported as success: when the structured generation of
\* the action handler returns no object, or the bound character declares no
\* functions list, sendToConversation ends with a thrown error or a
\* {status, message} failure, never with a {content, calls} result or with
\* an empty result.
C12_NoFailureReportedAsSuccess ==
    (/\ ret.op = "sendToConversation"
     /\ ret.runtime # 0
     /\ \/ <<"generateObject", 0>> \in ret.calls /\ ret.object = <<>>
        \/ ~ roomMaps[ret.secret].runtimeCharacterMap.character.declared)
        => ret.status \notin {"ok", "undefined"}

\* C13: createConversation with a character that has no RuntimeBinding
\* returns an empty result and changes nothing: no room, no participant,
\* conversationCount, conversationIdMap and roomMaps as they were.
C13_UnregisteredCreateChangesNothing ==
    [][(/\ ret'.op = "createConversation"
        /\ ret'.character \notin DOMAIN runtimeCharacterMaps)
           => (ret'.status = "empty" /\ UNCHANGED stateVars)]_vars

C13_Witness ==
    /\ ret.op = "createConversation"
    /\ ret.character \notin DOMAIN runtimeCharacterMaps
    /\ ret.status = "empty"
    /\ DOMAIN runtimeCharacterMaps # {}
    /\ conversationCount > 0

\* C14: loadCharacter on a character whose hash has no RuntimeBinding fails
\* with the not-found error and changes no state: this.characters is not
\* appended to and no runtime is initialized.
C14_UnregisteredLoadChangesNothing ==
    [][(/\ ret'.op = "loadCharacter"
        /\ ret'.character \notin DOMAIN runtimeCharacterMaps)
           => (ret'.status = "threw" /\ UNCHANGED stateVars)]_vars

C14_Witness ==
    /\ ret.op = "loadCharacter"
    /\ ret.character \notin DOMAIN runtimeCharacterMaps
    /\ ret.status = "threw"
    /\ Len(characters) > 0

\* C15: when the bound character declares one action, the response selects
\* it and its handler reports a message through the callback, the calls of
\* the result are exactly one entry: its name is the action's, its message
\* the generated one, its parameters the generated values under the names of
\* the declared parameters.
C15_OneCallForTheReportedAction ==
    (/\ ret.op = "sendToConversation"
     /\ <<"callback", 0>> \in ret.calls)
        => LET functions ==
                   roomMaps[ret.secret].runtimeCharacterMap.character.functions
           IN /\ Len(functions) = 1
              /\ ret.response[1].action = functions[1].name
              /\ ret.resultCalls =
                     <<[name |-> functions[1].name,
                        message |-> ret.object[1].message,
                        parameters |->
                            (functions[1].parameters[1]
                                 :> ret.object[1].parameters[0])]>>

C15_Witness ==
    /\ ret.op = "sendToConversation"
    /\ <<"callback", 0>> \in ret.calls
    /\ Len(ret.resultCalls) = 1
    /\ ret.resultCalls[1].name = "setMood"
    /\ ret.resultCalls[1].parameters["mood"] = "happy"

DoneUsers(s) ==
    {t \in Tasks : /\ tasks[t].op = "setConversationUsers"
                   /\ tasks[t].secret = s
                   /\ tasks[t].pc = "done"}

\* C16: setConversationUsers calls on one conversation are not serialized.
\* Calls that did not overlap leave the storage participants of the room
\* equal to the ids of the roster; for calls that overlapped this is not so:
\* the witness is a state, both calls returned, where the two sets differ.
C16_OnlyOverlappingCallsRace ==
    \A s \in DOMAIN roomMaps :
        (/\ InFlight("setConversationUsers", s) = {}
         /\ \A t \in DoneUsers(s) : ~ tasks[t].overlapped)
            => getParticipantsForRoom(dbParticipants, s)
                   = IdSet(roomMaps[s].users)

C16_Witness ==
    \E s \in DOMAIN roomMaps :
        /\ InFlight("setConversationUsers", s) = {}
        /\ Cardinality(DoneUsers(s)) = 2
        /\ \A t \in DoneUsers(s) : tasks[t].overlapped
        /\ getParticipantsForRoom(dbParticipants, s)
               # IdSet(roomMaps[s].users)

\* The sendToConversation calls, in flight or returned.
SendTasks == {t \in Tasks : tasks[t].op = "sendToConversation"}

\* C17: two sendToConversation calls in flight together on one runtime can
\* read each other's installed actions.  A call reads a list another call
\* installed only when the two overlapped on the runtime; the witness is a
\* call that has returned and has read, in processActions or in the final
\* lookup, the list the other call installed.
C17_ReadsListsOfOverlappingCallsOnly ==
    \A t \in SendTasks :
        \A u \in tasks[t].seen :
            \/ u = t
            \/ /\ tasks[t].overlapped
               /\ u \in SendTasks
               /\ tasks[u].runtime = tasks[t].runtime

C17_Witness ==
    \E t \in SendTasks :
        /\ tasks[t].pc = "done"
        /\ tasks[t].status = "ok"
        /\ \E u \in tasks[t].seen : u # t

\* C18: the provider the runtime queries while composing the state of a call
\* renders the key/value pairs of that call, never those of another call on
\* the same runtime.
C18_RendersOwnContextOnly ==
    \A t \in SendTasks :
        tasks[t].rendered # <<>>
            => tasks[t].rendered = <<[pairs |-> tasks[t].context]>>

\* The character registered with a runtime.
CharacterOf(runtime) ==
    runtimeCharacterMaps[CHOOSE h \in DOMAIN runtimeCharacterMaps :
                             runtimeCharacterMaps[h].runtime = runtime].character

\* C19: the actions a sendToConversation call installs on a runtime are the
\* declared functions of the character registered with that runtime, and the
\* runtime has not been stopped when it installs them.
C19_InstallsFunctionsOfItsRuntime ==
    \A t \in SendTasks :
        tasks[t].installed
            => /\ tasks[t].functions = CharacterOf(tasks[t].runtime).functions
               /\ ~ tasks[t].stoppedAtInstall

\* C21: finishConversation changes only the storage adapter: roomMaps,
\* conversationIdMap, conversationCount, the registry and the runtimes are
\* left as they were; and a sendToConversation on a finished conversation
\* from a user of its roster resolves the RoomBinding: it returns neither
\* "Room not found" nor "User not found".
C21_FinishKeepsTheBinding ==
    [][/\ ret'.op = "finishConversation"
           => UNCHANGED <<roomMaps, identityVars, registryVars, stopped,
                          runtimeVars, startVars, loadVars, tasks>>
       /\ (/\ ret'.op = "sendToConversation"
           /\ \E i \in DOMAIN convs : /\ convs[i].secret = ret'.secret
                                      /\ convs[i].id \in finished
           /\ ret'.playerId \in IdSet(roomMaps[ret'.secret].users))
              => /\ ret'.status \notin {"404 Room not found",
                                        "404 User not found"}
                 /\ ret'.runtime
                        = roomMaps[ret'.secret].runtimeCharacterMap.runtime]_vars

C21_Witness ==
    /\ ret.op = "sendToConversation"
    /\ ret.id \in finished
    /\ ret.secret \notin dbRooms
    /\ ret.status \notin {"404 Room not found", "404 User not found"}
    /\ ret.runtime # 0

\* C22: when createConversation returns a conversation, the id of the agent
\* of its character is in the storage participant set of the new room,
\* whatever the user list.
C22_AgentStaysParticipant ==
    (ret.op = "createConversation" /\ ret.status = "ok")
        => <<ret.secret,
             agentId(roomMaps[ret.secret].runtimeCharacterMap.runtime)>>
               \in dbParticipants

\* C23: in a successful sendToConversation the dialogue response is dropped
\* from the result iff the installed action of the name the response selects
\* declares suppressInitialMessage; else the result is built from the
\* response and then the message of the action, so the content is the
\* dialogue text whenever that text is not empty.  No action the pipeline
\* installs declares it, so the response is never dropped.
C23_ResponseDroppedIffSuppressed ==
    (ret.op = "sendToConversation" /\ ret.status = "ok")
        => LET list == actions[ret.runtime]
               response == ret.response[1]
               suppress == \E i \in DOMAIN list :
                               /\ list[i].name = response.action
                               /\ list[i].suppressInitialMessage
               texts == (IF suppress THEN <<>> ELSE <<response.text>>)
                            \o (IF <<"callback", 0>> \in ret.calls
                                THEN <<ret.object[1].message>> ELSE <<>>)
               nonEmpty == SelectSeq(texts, LAMBDA x : x # "")
           IN /\ ret.content = IF nonEmpty = <<>> THEN "" ELSE nonEmpty[1]
              /\ ~ suppress
              /\ response.text # "" => ret.content = response.text

C23_Witness ==
    /\ ret.op = "sendToConversation"
    /\ ret.status = "ok"
    /\ <<"callback", 0>> \in ret.calls
    /\ ret.response[1].action = "setMood"
    /\ ret.response[1].text = "hi"
    /\ ret.content = "hi"
    /\ ret.object[1].message # ret.content

\* The declared name of the parameter a returned key stands for.
NameOfKey(func, k) == func.parameters[k + 1]

\* C24: for declared parameters p[0..n-1] and generated parameters under
\* positional keys, the remapped parameters map p[i].name to the value
\* returned under key i for every returned key i and hold nothing else; the
\* message the collector gets carries the action name, the generated text
\* and the remapped parameters.
C24_RemapsEveryReturnedKey ==
    (ret.op = "sendToConversation" /\ <<"callback", 0>> \in ret.calls)
        => LET func == roomMaps[ret.secret].runtimeCharacterMap.character
                           .functions[1]
               generated == ret.object[1].parameters
               remapped == ret.resultCalls[1].parameters
           IN /\ ret.resultCalls[1].name = func.name
              /\ ret.resultCalls[1].message = ret.object[1].message
              /\ DOMAIN remapped
                     = {NameOfKey(func, k) : k \in DOMAIN generated}
              /\ \A k \in DOMAIN generated :
                     /\ NameOfKey(func, k) \in DOMAIN remapped
                     /\ remapped[NameOfKey(func, k)] = generated[k]

\* C24, amended: the remapped parameters map every non-empty declared name
\* of a returned key to the value under the last returned key of that name,
\* and hold nothing else (a returned key whose declared name is empty is
\* dropped); the message the collector gets carries the action name, the
\* generated text and the remapped parameters.
C24_RemapsNamedKeys ==
    (ret.op = "sendToConversation" /\ <<"callback", 0>> \in ret.calls)
        => LET func == roomMaps[ret.secret].runtimeCharacterMap.character
                           .functions[1]
               generated == ret.object[1].parameters
               remapped == ret.resultCalls[1].parameters
               Last(k) == \A j \in DOMAIN generated :
                              NameOfKey(func, j) = NameOfKey(func, k) => j <= k
           IN /\ Len(ret.resultCalls) = 1
              /\ ret.resultCalls[1].name = func.name
              /\ ret.resultCalls[1].message = ret.object[1].message
              /\ DOMAIN remapped
                     = {NameOfKey(func, k) : k \in DOMAIN generated} \ {""}
              /\ \A k \in DOMAIN generated :
                     (NameOfKey(func, k) # "" /\ Last(k))
                         => remapped[NameOfKey(func, k)] = generated[k]

C24_Witness ==
    /\ ret.op = "sendToConversation"
    /\ <<"callback", 0>> \in ret.calls
    /\ DOMAIN ret.object[1].parameters = {0, 1}
    /\ ret.object[1].parameters[0] = "a"
    /\ ret.object[1].parameters[1] = "b"
    /\ DOMAIN ret.resultCalls[1].parameters = {"x", "y"}
    /\ ret.resultCalls[1].parameters["x"] = "a"
    /\ ret.resultCalls[1].parameters["y"] = "b"

====
